---- MODULE Spec2Model ----
(***************************************************************************)
(* Webhook handlers of the image-analysis bot (sitex/abc4).                *)
(*                                                                         *)
(* The repository holds several near-duplicate handler files.  Each one is *)
(* a "variant" here:                                                       *)
(*   bot2   src/bot.mjs lines 83-357   (analyzeImage with classification)  *)
(*   bot3   src/bot.mjs lines 358-566  (plain analyzeImage)                *)
(*   p000   src/unnamed/part_000       (sanitizeMarkdown, parse fallback)  *)
(*   p001   src/unnamed/part_001       (cache, escape-mode sanitizer)      *)
(*   p002   src/unnamed/part_002       (photo only, 40MB ceiling)          *)
(*   p003a  src/unnamed/part_003 lines 1-232   (cache, markdown -> HTML)   *)
(*   p003b  src/unnamed/part_003 lines 233-462 (cache, HTML escaping)      *)
(* The two Telegraf-based files (bot.mjs 1-82, part_003 463-524) hand the  *)
(* dispatch to the library's handleUpdate and are not modelled.            *)
(*                                                                         *)
(* A text is a sequence of one-character strings.  An error message is     *)
(* the set of the substrings ("markers") the code tests it for with        *)
(* String.includes, plus a flag telling whether it embeds raw text of an   *)
(* external service.  Code between two awaits runs atomically, so every    *)
(* action is the completion of one awaited call together with the          *)
(* synchronous code that follows it up to the next await.                  *)
(***************************************************************************)
EXTENDS Integers, Sequences, FiniteSets, TLC

(***************************************************************************)
(* Bounds of the model                                                     *)
(***************************************************************************)
NumSlots == 2

MaxUpdates == 2

(***************************************************************************)
(* Texts                                                                   *)
(***************************************************************************)
NL == "\n"

\* U+2022, the bullet the list rule writes (one character)
BULLET == "bullet"

\* U+0060, the grave accent that delimits inline code (one character)
BACKTICK == "grave"

Min(a, b) == IF a < b THEN a ELSE b

\* String.prototype.substring(0, n)
substring0(t, n) == SubSeq(t, 1, Min(n, Len(t)))

\* does pat occur in t at position i
MatchAt(t, pat, i) ==
  /\ i >= 1
  /\ i + Len(pat) - 1 <= Len(t)
  /\ SubSeq(t, i, i + Len(pat) - 1) = pat

\* no line terminator in t[i..j]  (the regex dot does not match "\n")
NoNewline(t, i, j) == \A k \in i..j : t[k] # NL

\* is position i the start of a line (regex ^ under the m flag)
LineStart(t, i) == i = 1 \/ t[i - 1] = NL

\* index of the last character of the line that contains position i
\* (i itself may be the terminator: then the line is empty and ends at i-1)
LineEnd(t, i) ==
  LET nls == {k \in i..Len(t) : t[k] = NL}
  IN  IF nls = {} THEN Len(t) ELSE (CHOOSE k \in nls : \A m \in nls : k <= m) - 1

IsSpace(c) == c \in {" ", "\t", NL}

\* global replace of one literal character: every occurrence of the
\* character c is replaced by the text rep  (computed by halves, so that
\* texts of several thousand characters can be evaluated)
RECURSIVE ReplaceChar(_, _, _)
ReplaceChar(t, c, rep) ==
  IF \A k \in 1..Len(t) : t[k] # c THEN t
  ELSE IF Len(t) = 1 THEN rep
  ELSE ReplaceChar(SubSeq(t, 1, Len(t) \div 2), c, rep)
         \o ReplaceChar(SubSeq(t, Len(t) \div 2 + 1, Len(t)), c, rep)

\* smallest j >= from at which close occurs with no newline in t[from..j-1];
\* 0 when there is none  (a lazy dot-star group followed by a literal)
LazyClose(t, close, from) ==
  LET js == {j \in from..Len(t) : MatchAt(t, close, j) /\ NoNewline(t, from, j - 1)}
  IN  IF js = {} THEN 0 ELSE CHOOSE j \in js : \A m \in js : j <= m

\* global replace of  open LAZYGROUP close  by  pre GROUP post, scanning
\* from i  (the rest is copied at once when no open is left in it)
RECURSIVE ReplaceLazyFrom(_, _, _, _, _, _)
ReplaceLazyFrom(t, i, open, close, pre, post) ==
  IF i > Len(t) THEN <<>>
  ELSE IF \A k \in i..Len(t) : t[k] # open[1] THEN SubSeq(t, i, Len(t))
  ELSE IF MatchAt(t, open, i) /\ LazyClose(t, close, i + Len(open)) # 0
       THEN LET j == LazyClose(t, close, i + Len(open))
            IN  pre \o SubSeq(t, i + Len(open), j - 1) \o post
                    \o ReplaceLazyFrom(t, j + Len(close), open, close, pre, post)
       ELSE <<t[i]>> \o ReplaceLazyFrom(t, i + 1, open, close, pre, post)

ReplaceLazy(t, open, close, pre, post) == ReplaceLazyFrom(t, 1, open, close, pre, post)

\* the pair <<j, k>> matched by the link pattern when "[" is at position i:
\* j is the first "](" whose "(" is closed on the same line, k that first ")"
LinkMatch(t, i) ==
  LET js == {j \in (i + 1)..Len(t) :
               /\ MatchAt(t, <<"]", "(">>, j)
               /\ NoNewline(t, i + 1, j - 1)
               /\ LazyClose(t, <<")">>, j + 2) # 0}
  IN  IF js = {} THEN <<0, 0>>
      ELSE LET j == CHOOSE x \in js : \A m \in js : x <= m
           IN  <<j, LazyClose(t, <<")">>, j + 2)>>

\* global replace of  [GROUP1](GROUP2)  by  <a href="GROUP2">GROUP1</a>
RECURSIVE ReplaceLinksFrom(_, _)
ReplaceLinksFrom(t, i) ==
  IF i > Len(t) THEN <<>>
  ELSE IF \A k \in i..Len(t) : t[k] # "[" THEN SubSeq(t, i, Len(t))
  ELSE IF t[i] = "[" /\ LinkMatch(t, i)[1] # 0
       THEN LET j == LinkMatch(t, i)[1]
                k == LinkMatch(t, i)[2]
            IN  <<"<", "a", " ", "h", "r", "e", "f", "=", "\"">>
                  \o SubSeq(t, j + 2, k - 1) \o <<"\"", ">">>
                  \o SubSeq(t, i + 1, j - 1) \o <<"<", "/", "a", ">">>
                  \o ReplaceLinksFrom(t, k + 1)
       ELSE <<t[i]>> \o ReplaceLinksFrom(t, i + 1)

ReplaceLinks(t) == ReplaceLinksFrom(t, 1)

\* global multiline replace of a line  prefix REST  by  <b>REST</b>
RECURSIVE ReplaceHeaderFrom(_, _, _)
ReplaceHeaderFrom(t, i, prefix) ==
  IF i > Len(t) THEN <<>>
  ELSE IF \A k \in i..Len(t) : t[k] # prefix[1] THEN SubSeq(t, i, Len(t))
  ELSE IF LineStart(t, i) /\ MatchAt(t, prefix, i)
       THEN LET e == LineEnd(t, i + Len(prefix))
            IN  <<"<", "b", ">">> \o SubSeq(t, i + Len(prefix), e) \o <<"<", "/", "b", ">">>
                  \o ReplaceHeaderFrom(t, e + 1, prefix)
       ELSE <<t[i]>> \o ReplaceHeaderFrom(t, i + 1, prefix)

ReplaceHeader(t, prefix) == ReplaceHeaderFrom(t, 1, prefix)

\* first position >= i that is not white space (Len(t)+1 when there is none)
SkipSpace(t, i) ==
  LET ps == {p \in i..Len(t) : ~IsSpace(t[p])}
  IN  IF ps = {} THEN Len(t) + 1 ELSE CHOOSE p \in ps : \A m \in ps : p <= m

\* global multiline replace of  SPACES [-or*] space REST  by  bullet space REST
RECURSIVE ReplaceBulletsFrom(_, _)
ReplaceBulletsFrom(t, i) ==
  IF i > Len(t) THEN <<>>
  ELSE IF \A k \in i..Len(t) : t[k] \notin {"-", "*"} THEN SubSeq(t, i, Len(t))
  ELSE LET p == SkipSpace(t, i)
       IN  IF /\ LineStart(t, i)
              /\ p + 1 <= Len(t)
              /\ t[p] \in {"-", "*"}
              /\ t[p + 1] = " "
           THEN LET e == LineEnd(t, p + 2)
                IN  <<BULLET, " ">> \o SubSeq(t, p + 2, e) \o ReplaceBulletsFrom(t, e + 1)
           ELSE <<t[i]>> \o ReplaceBulletsFrom(t, i + 1)

ReplaceBullets(t) == ReplaceBulletsFrom(t, 1)

(***************************************************************************)
(* Response sanitizers                                                     *)
(***************************************************************************)
escapeChars ==
  <<"_", "*", "[", "]", "(", ")", "~", BACKTICK, ">", "#", "+", "-", "=", "|", "{", "}", ".", "!">>

ELLIPSIS == <<".", ".", ".">>

RECURSIVE EscapeAll(_, _)
EscapeAll(t, n) ==
  IF n = 0 THEN t
  ELSE LET prev == EscapeAll(t, n - 1)
       IN  ReplaceChar(prev, escapeChars[n], <<"\\", escapeChars[n]>>)

\* part_001 sanitizeMarkdown
sanitizeMarkdown(text) ==
  LET sanitized == EscapeAll(text, Len(escapeChars))
  IN  IF Len(sanitized) > 4000 THEN substring0(sanitized, 3997) \o ELLIPSIS ELSE sanitized

\* part_003 (first file) markdownToTelegramHTML
markdownToTelegramHTML(markdown) ==
  LET h3 == ReplaceHeader(markdown, <<"#", "#", "#", " ">>)
      h2 == ReplaceHeader(h3, <<"#", "#", " ">>)
      h1 == ReplaceHeader(h2, <<"#", " ">>)
      bo == ReplaceLazy(h1, <<"*", "*">>, <<"*", "*">>, <<"<", "b", ">">>, <<"<", "/", "b", ">">>)
      it == ReplaceLazy(bo, <<"*">>, <<"*">>, <<"<", "i", ">">>, <<"<", "/", "i", ">">>)
      li == ReplaceBullets(it)
      lk == ReplaceLinks(li)
  IN  ReplaceLazy(lk, <<BACKTICK>>, <<BACKTICK>>,
                  <<"<", "c", "o", "d", "e", ">">>, <<"<", "/", "c", "o", "d", "e", ">">>)

\* part_003 (second file) sanitizeTelegramFormatting
sanitizeTelegramFormatting(text0) ==
  LET amp == ReplaceChar(text0, "&", <<"&", "a", "m", "p", ";">>)
      lt  == ReplaceChar(amp, "<", <<"&", "l", "t", ";">>)
      gt  == ReplaceChar(lt, ">", <<"&", "g", "t", ";">>)
      bo  == ReplaceLazy(gt, <<"*", "*">>, <<"*", "*">>, <<"<", "b", ">">>, <<"<", "/", "b", ">">>)
      un  == ReplaceLazy(bo, <<"_", "_">>, <<"_", "_">>, <<"<", "u", ">">>, <<"<", "/", "u", ">">>)
      it  == ReplaceLazy(un, <<"*">>, <<"*">>, <<"<", "i", ">">>, <<"<", "/", "i", ">">>)
      co  == ReplaceLazy(it, <<BACKTICK>>, <<BACKTICK>>,
                         <<"<", "c", "o", "d", "e", ">">>, <<"<", "/", "c", "o", "d", "e", ">">>)
      text == ReplaceLinks(co)
  IN  IF Len(text) > 4096 THEN substring0(text, 4093) \o ELLIPSIS ELSE text

(***************************************************************************)
(* Variants and their configuration                                        *)
(***************************************************************************)
Variants == {"bot2", "bot3", "p000", "p001", "p002", "p003a", "p003b"}

\* the files whose handler arms the 25 s timer
HasTimer(v) == v \in {"bot2", "bot3", "p000", "p002"}

\* the files that keep the analysisCache map
Cached(v) == v \in {"p001", "p003a", "p003b"}

\* the files whose handler has a handleDocument branch
HasDocument(v) == v \in {"bot2", "bot3", "p000"}

\* identifiers the code uses in analyzeImage without the file declaring or
\* importing them: evaluating one throws a ReferenceError
Undeclared(v) ==
  CASE v = "p000"  -> {"sanitizeMarkdown"}
    [] v = "p003b" -> {"HarmCategory"}
    [] OTHER       -> {}

MiB == 1024 * 1024

MAX_FILE_SIZE(v) == IF v = "p002" THEN 40 * 1024 * 1024 ELSE 4 * 1024 * 1024

(***************************************************************************)
(* Images: the downloaded buffer is its length, its first (up to) four     *)
(* bytes, and an identity of its whole content                             *)
(***************************************************************************)
JPEG_JFIF == <<255, 216, 255, 224>>

JPEG_EXIF == <<255, 216, 255, 225>>

PNG_SIG == <<137, 80, 78, 71>>

GIF_SIG == <<71, 73, 70, 56>>

Images ==
  { [id |-> 1, len |-> 2 * MiB,     head |-> JPEG_JFIF],
    [id |-> 2, len |-> 4 * MiB,     head |-> PNG_SIG],
    [id |-> 3, len |-> 1000,        head |-> GIF_SIG],
    [id |-> 4, len |-> 1000,        head |-> JPEG_EXIF],
    [id |-> 5, len |-> 1000,        head |-> <<255, 216, 255, 219>>],
    [id |-> 6, len |-> 2,           head |-> <<255, 216>>],
    [id |-> 7, len |-> 4 * MiB + 1, head |-> JPEG_JFIF],
    [id |-> 8, len |-> 5 * MiB,     head |-> <<0, 0, 0, 0>>],
    [id |-> 9, len |-> 41 * MiB,    head |-> JPEG_JFIF] }

NoImage == [id |-> 0, len |-> 0, head |-> <<>>]

HexDigits == <<"0", "1", "2", "3", "4", "5", "6", "7", "8", "9", "a", "b", "c", "d", "e", "f">>

\* Buffer.toString('hex', 0, 4): two lower-case hex digits per byte of the
\* first four bytes (fewer when the buffer is shorter)
RECURSIVE ToHex(_)
ToHex(bytes) ==
  IF bytes = <<>> THEN <<>>
  ELSE <<HexDigits[(Head(bytes) \div 16) + 1], HexDigits[(Head(bytes) % 16) + 1]>>
         \o ToHex(Tail(bytes))

signatures ==
  { <<<<"f", "f", "d", "8", "f", "f", "e", "0">>, "image/jpeg">>,
    <<<<"f", "f", "d", "8", "f", "f", "e", "1">>, "image/jpeg">>,
    <<<<"8", "9", "5", "0", "4", "e", "4", "7">>, "image/png">>,
    <<<<"4", "7", "4", "9", "4", "6", "3", "8">>, "image/gif">> }

\* a classifier that compares only the first three bytes
checkImageType_Mutant(imageBuffer) ==
  LET signature == ToHex(SubSeq(imageBuffer.head, 1, Min(3, Len(imageBuffer.head))))
      hits == {p \in signatures : SubSeq(p[1], 1, 6) = signature}
  IN  IF hits = {} THEN "unknown" ELSE (CHOOSE p \in hits : TRUE)[2]

\* part_001 / part_003 checkImageType
checkImageType(imageBuffer) ==
  LET signature == ToHex(SubSeq(imageBuffer.head, 1, Min(4, Len(imageBuffer.head))))
      hits == {p \in signatures : p[1] = signature}
  IN  IF hits = {} THEN "unknown" ELSE (CHOOSE p \in hits : TRUE)[2]

\* crypto.createHash('md5').update(imageBuffer).digest('hex'): the digest
\* stands for the whole content (no collisions among the images of the model)
ImageHash(imageBuffer) == imageBuffer.id

\* a size check against a ceiling one MiB too high
TooBig_Mutant(v, imageBuffer) == imageBuffer.len > MAX_FILE_SIZE(v) + MiB

\* if (imageBuffer.length > MAX_FILE_SIZE)
TooBig(v, imageBuffer) == imageBuffer.len > MAX_FILE_SIZE(v)

(***************************************************************************)
(* Error messages                                                          *)
(***************************************************************************)
M_SAFETY == "SAFETY"

M_BLOCKED == "blocked due to safety"

M_RATE == "rate limit"

M_NETWORK == "network"

M_PARSE == "can't parse entities"

M_SAFETY_CONCERNS == "safety concerns"

M_FILE_LINK == "Failed to get file link"

M_DOWNLOAD == "Failed to download image"

M_EXCEEDS == "exceeds the maximum allowed size"

\* the Russian sentences of part_001 / part_003, transliterated
M_SIZE_RU == "maksimalno dopustimyi razmer"

M_FORMAT_RU == "Nepodderzhivaemyi format izobrazheniya"

\* an Error: mk = the markers its message contains, raw = the message embeds
\* text that came from an external service
Err(mk, raw) == [mk |-> mk, raw |-> raw]

\* error.message.includes(marker)
includes(e, marker) == marker \in e.mk

\* new Error(prefix + error.message) where prefix contains the markers pre
Wrap(pre, e) == Err(pre \cup e.mk, e.raw)

\* what the external calls can fail with
LinkErrs == {Err({}, TRUE), Err({M_NETWORK}, TRUE)}

DownloadErrs == {Err({}, TRUE), Err({M_NETWORK}, TRUE), Err({M_RATE}, TRUE)}

VisionErrs == {Err({}, TRUE), Err({M_SAFETY}, TRUE), Err({M_RATE}, TRUE), Err({M_NETWORK}, TRUE)}

SendErrs == {Err({}, TRUE), Err({M_PARSE}, TRUE)}

\* what response.text() returns
RawTexts == { <<"o", "k">>, <<"*", "a", "*", ".", "<">> }

(***************************************************************************)
(* Updates                                                                 *)
(***************************************************************************)
Upd(m, p, d, ht, t) == [msg |-> m, photo |-> p, document |-> d, hasText |-> ht, text |-> t]

Updates ==
  { Upd(FALSE, "absent", "absent", FALSE, <<>>),
    Upd(TRUE, "absent", "absent", FALSE, <<>>),
    Upd(TRUE, "sizes", "absent", FALSE, <<>>),
    Upd(TRUE, "sizes", "image/png", TRUE, <<"/", "s", "t", "a", "r", "t">>),
    Upd(TRUE, "empty", "absent", FALSE, <<>>),
    Upd(TRUE, "absent", "image/png", FALSE, <<>>),
    Upd(TRUE, "absent", "image/png", TRUE, <<"h", "i">>),
    Upd(TRUE, "absent", "application/pdf", FALSE, <<>>),
    Upd(TRUE, "absent", "nomime", FALSE, <<>>),
    Upd(TRUE, "absent", "absent", TRUE, <<"/", "s", "t", "a", "r", "t">>),
    Upd(TRUE, "absent", "absent", TRUE, <<"/", "H", "E", "L", "P">>),
    Upd(TRUE, "absent", "absent", TRUE, <<"/", "a", "b", "o", "u", "t">>),
    Upd(TRUE, "absent", "absent", TRUE, <<"h", "i">>),
    Upd(TRUE, "absent", "absent", TRUE, <<>>) }

NoUpdate == Upd(FALSE, "none", "none", FALSE, <<>>)

UpperCase == <<"A", "B", "E", "H", "L", "O", "P", "R", "S", "T", "U">>

LowerCase == <<"a", "b", "e", "h", "l", "o", "p", "r", "s", "t", "u">>

\* a dispatcher that compares the text as it was typed
toLowerCase_Mutant(t) == t

\* String.prototype.toLowerCase
toLowerCase(t) ==
  [i \in 1..Len(t) |->
     IF \E k \in 1..Len(UpperCase) : UpperCase[k] = t[i]
     THEN LowerCase[CHOOSE k \in 1..Len(UpperCase) : UpperCase[k] = t[i]]
     ELSE t[i]]

\* JavaScript truthiness of body.message.photo (an empty array is truthy),
\* body.message.document and body.message.text (the empty string is falsy)
PhotoTruthy(u) == u.msg /\ u.photo # "absent"

DocumentTruthy(u) == u.msg /\ u.document # "absent"

\* a text test that asks for the presence of the field only
TextTruthy_Mutant(u) == u.msg /\ u.hasText

TextTruthy(u) == u.msg /\ u.hasText /\ u.text # <<>>

\* a dispatcher that looks at the text first
handler_branch_Mutant(v, u) ==
  IF TextTruthy(u) THEN "text"
  ELSE IF PhotoTruthy(u) THEN "handlePhoto"
  ELSE IF HasDocument(v) /\ DocumentTruthy(u) THEN "handleDocument"
  ELSE IF HasTimer(v) THEN "unknown"
  ELSE "nothing"

\* the branch of the if / else-if chain of handler that the update takes
handler_branch(v, u) ==
  IF HasTimer(v)
  THEN CASE PhotoTruthy(u)                       -> "handlePhoto"
         [] ~PhotoTruthy(u) /\ HasDocument(v) /\ DocumentTruthy(u) -> "handleDocument"
         [] ~PhotoTruthy(u) /\ ~(HasDocument(v) /\ DocumentTruthy(u)) /\ TextTruthy(u) -> "text"
         [] OTHER                                -> "unknown"
  ELSE CASE ~u.msg                               -> "nothing"
         [] u.msg /\ PhotoTruthy(u)              -> "handlePhoto"
         [] u.msg /\ ~PhotoTruthy(u) /\ TextTruthy(u) ->
              (CASE toLowerCase(u.text) = <<"/", "s", "t", "a", "r", "t">> -> "handleStart"
                 [] toLowerCase(u.text) = <<"/", "h", "e", "l", "p">>      -> "handleHelp"
                 [] toLowerCase(u.text) = <<"/", "a", "b", "o", "u", "t">> -> "handleAbout"
                 [] OTHER                                                 -> "text")
         [] OTHER                                -> "nothing"

(***************************************************************************)
(* Outbound messages                                                       *)
(***************************************************************************)
\* kind: notice / analysis / error / reject / reply / fallbackIntro /
\* fallbackPlain; sentence: which fixed sentence; body: the analysis text;
\* mode: parse_mode; raw: the text embeds raw text of an external service;
\* san: the function that produced body
Msg(kind, sentence, body, mode, raw, san) ==
  [kind |-> kind, sentence |-> sentence, body |-> body, mode |-> mode, raw |-> raw, san |-> san]

NoMsg == Msg("none", "none", <<>>, "plain", FALSE, "none")

NoErr == Err({}, FALSE)

\* parse_mode of the message that carries the analysis
AnalysisMode(v) ==
  CASE v = "p001"              -> "MarkdownV2"
    [] v \in {"p003a", "p003b"} -> "HTML"
    [] OTHER                   -> "Markdown"

\* the sanitizing function each file calls on response.text()
SanitizerName(v) ==
  CASE v \in {"p000", "p001"} -> "sanitizeMarkdown"
    [] v = "p003a"            -> "markdownToTelegramHTML"
    [] v = "p003b"            -> "sanitizeTelegramFormatting"
    [] OTHER                  -> "none"

Sanitize(v, t) ==
  CASE SanitizerName(v) = "sanitizeMarkdown"           -> sanitizeMarkdown(t)
    [] SanitizerName(v) = "markdownToTelegramHTML"     -> markdownToTelegramHTML(t)
    [] SanitizerName(v) = "sanitizeTelegramFormatting" -> sanitizeTelegramFormatting(t)
    [] OTHER                                           -> t

(***************************************************************************)
(* One handler invocation (a slot)                                         *)
(***************************************************************************)
Slots == 1..NumSlots

NoSan == [fn |-> "none", text |-> <<>>, out |-> <<>>, again |-> <<>>, pc |-> "none"]

Idle ==
  [ pc       |-> "idle",     \* idle, getFileLink, download, vision, send, done
    upd      |-> NoUpdate,   \* req.body
    invoked  |-> <<>>,       \* the handlers the webhook handler called
    ctx      |-> "none",     \* handlePhoto or handleDocument
    img      |-> NoImage,    \* imageBuffer
    raw      |-> <<>>,       \* result.response.text()
    gotText  |-> FALSE,
    out      |-> <<>>,       \* messages delivered to the conversation
    sending  |-> NoMsg,      \* the message of the awaited send
    caught   |-> NoErr,      \* the error the handler's catch block received
    thrown   |-> {},         \* the kinds of error raised so far
    extFail  |-> {},         \* the external calls that failed
    rejected |-> NoErr,      \* the error getFileLink, axios.get or Gemini failed with
    nLink    |-> 0,          \* calls of bot.getFileLink
    nDownload |-> 0,         \* calls of axios.get
    nVision  |-> 0,          \* calls of model.generateContent
    cacheOps |-> {},         \* hash / has / get / set on analysisCache
    response |-> 0,          \* the status written to res (0: none yet)
    late     |-> <<>>,       \* statuses written after the response was sent
    timer    |-> "none" ]    \* none, armed, cleared, fired

\* san: one call of a response sanitizer on a text, followed by a second
\* call on its own output (fn "none": no such call is being followed)
VARIABLES variant, req, analysisCache, nUpdates, prev, san

vars == <<variant, req, analysisCache, nUpdates, prev, san>>

Raise(r, tag) == [r EXCEPT !.thrown = @ \cup {tag}]

ExtFailed(r, op) == [r EXCEPT !.extFail = @ \cup {op}]

\* the awaited call op rejected with (or threw) the error e
Rejected(r, op, e) == [ExtFailed(r, op) EXCEPT !.rejected = e]

StartSend(r, m) == [r EXCEPT !.pc = "send", !.sending = m]

\* a webhook handler whose catch block does not write the 500
Finish_Mutant(v, r, status) ==
  LET r1 == [r EXCEPT !.pc = "done", !.timer = IF @ = "armed" THEN "cleared" ELSE @]
  IN  IF r.response = 0
      THEN (IF status = 500 THEN r1 ELSE [r1 EXCEPT !.response = status])
      ELSE [r1 EXCEPT !.late = @ \o (IF status = 500 THEN <<500>> ELSE <<status, 500>>)]

\* clearTimeout(timeout); res.status(status)...  When the response was already
\* sent (by the timer) the write throws; a throw inside the try of handler is
\* caught and the catch block attempts the 500, which throws again.
Finish(v, r, status) ==
  LET r1 == [r EXCEPT !.pc = "done", !.timer = IF @ = "armed" THEN "cleared" ELSE @]
  IN  IF r.response = 0
      THEN [r1 EXCEPT !.response = status]
      ELSE [r1 EXCEPT !.late = @ \o (IF status = 500 THEN <<500>> ELSE <<status, 500>>)]

\* the sentence chosen by the catch block of handlePhoto
handlePhoto_sentence(v, e) ==
  CASE v = "p000" ->
         (IF includes(e, M_SAFETY_CONCERNS) THEN "Safety"
          ELSE IF includes(e, M_RATE) THEN "RateLimit"
          ELSE IF includes(e, M_NETWORK) THEN "Network"
          ELSE IF includes(e, M_FILE_LINK) THEN "FileLink"
          ELSE IF includes(e, M_DOWNLOAD) THEN "Download"
          ELSE IF includes(e, M_EXCEEDS) THEN "TooLarge"
          ELSE IF includes(e, M_PARSE) THEN "Fallback"
          ELSE "Unexpected")
    [] v = "bot2" ->
         (IF includes(e, M_SAFETY_CONCERNS) THEN "Safety"
          ELSE IF includes(e, M_RATE) THEN "RateLimit"
          ELSE IF includes(e, M_NETWORK) THEN "Network"
          ELSE IF includes(e, M_FILE_LINK) THEN "FileLink"
          ELSE IF includes(e, M_DOWNLOAD) THEN "Download"
          ELSE "Unexpected")
    [] v \in {"bot3", "p002"} -> "Sorry"
    [] OTHER ->
         (IF includes(e, M_SIZE_RU) THEN "TooLarge"
          ELSE IF includes(e, M_FORMAT_RU) THEN "Unsupported"
          ELSE "UnexpectedFixed")

\* does the chosen sentence quote error.message
QuotesError(sentence) == sentence \in {"Unexpected", "Sorry", "Unsupported"}

\* the catch block of handlePhoto
handlePhoto_catch(v, r, e) ==
  LET sentence == handlePhoto_sentence(v, e)
      r1 == [r EXCEPT !.caught = e]
  IN  IF sentence = "Fallback"
      THEN StartSend(r1, Msg("fallbackIntro", "FallbackIntro", <<>>, "plain", FALSE, "none"))
      ELSE StartSend(r1, Msg("error", sentence, <<>>, "plain",
                             QuotesError(sentence) /\ e.raw, "none"))

\* the catch block of handleDocument
handleDocument_catch(v, r, e) ==
  StartSend([r EXCEPT !.caught = e], Msg("error", "Sorry", <<>>, "plain", e.raw, "none"))

Caught(v, r, e) ==
  IF r.ctx = "handleDocument" THEN handleDocument_catch(v, r, e) ELSE handlePhoto_catch(v, r, e)

\* the error thrown by the catch around bot.getFileLink
getFileLink_catch(v, ctx, e) ==
  IF Cached(v) THEN e
  ELSE IF v \in {"bot2", "p000"} /\ ctx = "handlePhoto" THEN Wrap({M_FILE_LINK}, e)
  ELSE Err({M_FILE_LINK}, FALSE)

\* the error thrown by the catch around the download and the size check
download_catch(v, ctx, e) ==
  IF Cached(v) THEN e
  ELSE IF v \in {"bot2", "p000"} /\ ctx = "handlePhoto" THEN Wrap({M_DOWNLOAD}, e)
  ELSE Err({M_DOWNLOAD}, FALSE)

\* the error thrown by the size check
oversize_error(v) == IF Cached(v) THEN Err({M_SIZE_RU}, FALSE) ELSE Err({M_EXCEEDS}, FALSE)

\* the error thrown by the catch block of analyzeImage (in part_002: by the
\* catch blocks around the Gemini call and around the send)
analyzeImage_catch(v, e) ==
  CASE v \in {"bot2", "p000"} ->
         (IF includes(e, M_SAFETY) \/ includes(e, M_BLOCKED) THEN Err({M_SAFETY_CONCERNS}, FALSE)
          ELSE IF includes(e, M_RATE) THEN Err({M_RATE}, FALSE)
          ELSE IF includes(e, M_NETWORK) THEN Err({}, FALSE)
          ELSE IF v = "p000" /\ includes(e, M_PARSE) THEN Err({}, FALSE)
          ELSE Wrap({}, e))
    [] v \in {"bot3", "p002"} -> Err({}, FALSE)
    [] OTHER -> Wrap({}, e)

\* an analyzeImage that calls generateContent a second time after a failure
AnalyzeFail_Mutant(v, r, e) ==
  IF "vision" \in r.extFail /\ r.nVision = 1
  THEN [r EXCEPT !.pc = "vision", !.nVision = @ + 1]
  ELSE Caught(v, Raise(r, "Analyze"), analyzeImage_catch(v, e))

AnalyzeFail(v, r, e) == Caught(v, Raise(r, "Analyze"), analyzeImage_catch(v, e))

\* an analyzeImage that calls Vision before it looks into the cache
analyzeImage_entry_Mutant(v, r, cache) ==
  [r EXCEPT !.pc = "vision", !.nVision = @ + 1]

\* analyzeImage from its first line to its first await
analyzeImage_entry(v, r, cache) ==
  IF Cached(v)
  THEN LET imageHash == ImageHash(r.img)
           r1 == [r EXCEPT !.cacheOps = @ \cup {"hash", "has"}]
       IN  IF imageHash \in DOMAIN cache
           THEN StartSend([r1 EXCEPT !.cacheOps = @ \cup {"get"}],
                          Msg("analysis", "Analysis", cache[imageHash], AnalysisMode(v),
                              FALSE, "cache"))
           ELSE IF "HarmCategory" \in Undeclared(v)
                THEN AnalyzeFail(v, Raise(r1, "ReferenceError"), Err({}, FALSE))
                ELSE [r1 EXCEPT !.pc = "vision", !.nVision = @ + 1]
  ELSE [r EXCEPT !.pc = "vision", !.nVision = @ + 1]

\* a handlePhoto that sends the notice without classifying the format
afterDownload_Mutant(v, r, imageBuffer, cache) ==
  LET r1 == [r EXCEPT !.img = imageBuffer]
  IN  IF TooBig(v, imageBuffer)
      THEN Caught(v, Raise(r1, "Oversized"), download_catch(v, r.ctx, oversize_error(v)))
      ELSE IF Cached(v)
           THEN StartSend(r1, Msg("notice", "Processing", <<>>, "plain", FALSE, "none"))
           ELSE analyzeImage_entry(v, r1, cache)

\* the code that follows a downloaded buffer, up to the next await
afterDownload(v, r, imageBuffer, cache) ==
  LET r1 == [r EXCEPT !.img = imageBuffer]
  IN  IF TooBig(v, imageBuffer)
      THEN Caught(v, Raise(r1, "Oversized"), download_catch(v, r.ctx, oversize_error(v)))
      ELSE IF Cached(v)
           THEN IF checkImageType(imageBuffer) = "unknown"
                THEN Caught(v, Raise(r1, "Unsupported"), Err({M_FORMAT_RU}, FALSE))
                ELSE StartSend(r1, Msg("notice", "Processing", <<>>, "plain", FALSE, "none"))
           ELSE analyzeImage_entry(v, r1, cache)

\* handlePhoto from its first line to its first await
handlePhoto_entry(v, r) ==
  LET r1 == [r EXCEPT !.invoked = Append(@, "handlePhoto"), !.ctx = "handlePhoto"]
  IN  IF r.upd.photo = "empty"
      THEN handlePhoto_catch(v, Raise(r1, "TypeError"), Err({}, FALSE))
      ELSE [r1 EXCEPT !.pc = "getFileLink", !.nLink = @ + 1]

\* a handleDocument that does not test the declared MIME type
handleDocument_entry_Mutant(v, r) ==
  LET r1 == [r EXCEPT !.invoked = Append(@, "handleDocument"), !.ctx = "handleDocument"]
  IN  CASE r.upd.document = "nomime" ->
             handleDocument_catch(v, Raise(r1, "TypeError"), Err({}, FALSE))
        [] OTHER -> [r1 EXCEPT !.pc = "getFileLink", !.nLink = @ + 1]

\* handleDocument from its first line to its first await
handleDocument_entry(v, r) ==
  LET r1 == [r EXCEPT !.invoked = Append(@, "handleDocument"), !.ctx = "handleDocument"]
  IN  CASE r.upd.document = "nomime" ->
             handleDocument_catch(v, Raise(r1, "TypeError"), Err({}, FALSE))
        [] r.upd.document = "application/pdf" ->
             StartSend(r1, Msg("reject", "PleaseSendImage", <<>>, "plain", FALSE, "none"))
        [] OTHER -> [r1 EXCEPT !.pc = "getFileLink", !.nLink = @ + 1]

\* the canned replies of the text branch
textReply(v, branch) ==
  LET mode == IF v \in {"p003a", "p003b"} /\ branch # "text" THEN "HTML" ELSE "plain"
      sentence == CASE branch = "handleStart" -> "Start"
                    [] branch = "handleHelp"  -> "Help"
                    [] branch = "handleAbout" -> "About"
                    [] OTHER                  -> "TextPrompt"
  IN  Msg("reply", sentence, <<>>, mode, FALSE, "none")

\* a handler that answers 200 to an update of unknown shape
handler_entry_Mutant(v, u) ==
  LET r0 == [Idle EXCEPT !.upd = u, !.timer = IF HasTimer(v) THEN "armed" ELSE "none"]
      branch == handler_branch(v, u)
  IN  CASE branch = "handlePhoto"    -> handlePhoto_entry(v, r0)
        [] branch = "handleDocument" -> handleDocument_entry(v, r0)
        [] branch \in {"unknown", "nothing"} -> Finish(v, r0, 200)
        [] OTHER -> StartSend([r0 EXCEPT !.invoked = Append(@, branch)], textReply(v, branch))

\* handler from its first line to its first await
handler_entry(v, u) ==
  LET r0 == [Idle EXCEPT !.upd = u, !.timer = IF HasTimer(v) THEN "armed" ELSE "none"]
      branch == handler_branch(v, u)
  IN  CASE branch = "handlePhoto"    -> handlePhoto_entry(v, r0)
        [] branch = "handleDocument" -> handleDocument_entry(v, r0)
        [] branch = "unknown"        -> Finish(v, r0, 400)
        [] branch = "nothing"        -> Finish(v, r0, 200)
        [] OTHER -> StartSend([r0 EXCEPT !.invoked = Append(@, branch)], textReply(v, branch))

\* what awaiting model.generateContent and reading response.text() can give:
\* a text, a result without response, a response whose text() throws because
\* the candidate was blocked, or a rejected call
VisionOutcomes ==
  {[kind |-> "text", text |-> t, e |-> NoErr] : t \in RawTexts}
    \cup {[kind |-> "noresp", text |-> <<>>, e |-> NoErr]}
    \cup {[kind |-> "blocked", text |-> <<>>, e |-> Err({M_SAFETY}, TRUE)]}
    \cup {[kind |-> "throw", text |-> <<>>, e |-> x] : x \in VisionErrs}

\* a cache in which the first value written for a key stays
CacheSet_Mutant(cache, k, val) ==
  IF k \in DOMAIN cache THEN cache
  ELSE [x \in (DOMAIN cache) \cup {k} |-> IF x = k THEN val ELSE cache[x]]

\* analysisCache.set(imageHash, analysis)
CacheSet(cache, k, val) ==
  [x \in (DOMAIN cache) \cup {k} |-> IF x = k THEN val ELSE cache[x]]

\* an analyzeImage whose store first forgets every other key
afterVision_Mutant(v, r, o, cache) ==
  CASE o.kind = "text" ->
         LET r1 == [r EXCEPT !.raw = o.text, !.gotText = TRUE]
         IN  IF "sanitizeMarkdown" \in Undeclared(v)
             THEN [r |-> AnalyzeFail(v, Raise(r1, "ReferenceError"), Err({}, FALSE)),
                   cache |-> cache]
             ELSE LET analysis == Sanitize(v, o.text)
                      m == Msg("analysis", "Analysis", analysis, AnalysisMode(v), FALSE,
                               SanitizerName(v))
                  IN  IF Cached(v)
                      THEN [r |-> StartSend([r1 EXCEPT !.cacheOps = @ \cup {"set"}], m),
                            cache |-> CacheSet(<<>>, ImageHash(r.img), analysis)]
                      ELSE [r |-> StartSend(r1, m), cache |-> cache]
    [] o.kind = "noresp" ->
         [r |-> AnalyzeFail(v, Raise(r, "NoResponse"), Err({}, FALSE)), cache |-> cache]
    [] OTHER ->
         [r |-> AnalyzeFail(v, Raise(Rejected(r, "vision", o.e), "Vision"), o.e), cache |-> cache]

\* the code that follows the awaited generateContent, up to the next await:
\* the new slot and the new cache
afterVision(v, r, o, cache) ==
  CASE o.kind = "text" ->
         LET r1 == [r EXCEPT !.raw = o.text, !.gotText = TRUE]
         IN  IF "sanitizeMarkdown" \in Undeclared(v)
             THEN [r |-> AnalyzeFail(v, Raise(r1, "ReferenceError"), Err({}, FALSE)),
                   cache |-> cache]
             ELSE LET analysis == Sanitize(v, o.text)
                      m == Msg("analysis", "Analysis", analysis, AnalysisMode(v), FALSE,
                               SanitizerName(v))
                  IN  IF Cached(v)
                      THEN [r |-> StartSend([r1 EXCEPT !.cacheOps = @ \cup {"set"}], m),
                            cache |-> CacheSet(cache, ImageHash(r.img), analysis)]
                      ELSE [r |-> StartSend(r1, m), cache |-> cache]
    [] o.kind = "noresp" ->
         [r |-> AnalyzeFail(v, Raise(r, "NoResponse"), Err({}, FALSE)), cache |-> cache]
    [] OTHER ->
         [r |-> AnalyzeFail(v, Raise(Rejected(r, "vision", o.e), "Vision"), o.e), cache |-> cache]

\* a handler that runs its catch block after the analysis was delivered
afterSendOk_Mutant(v, r, cache) ==
  LET m == r.sending
      r1 == [r EXCEPT !.out = Append(@, m), !.sending = NoMsg]
  IN  CASE m.kind = "notice" -> analyzeImage_entry(v, r1, cache)
        [] m.kind = "fallbackIntro" ->
             StartSend(r1, Msg("fallbackPlain", "ErrorText", <<>>, "plain", r.caught.raw, "none"))
        [] m.kind = "analysis" -> Caught(v, r1, Err({}, FALSE))
        [] OTHER -> Finish(v, r1, 200)

\* the code that follows an awaited sendMessage which resolved
afterSendOk(v, r, cache) ==
  LET m == r.sending
      r1 == [r EXCEPT !.out = Append(@, m), !.sending = NoMsg]
  IN  CASE m.kind = "notice" -> analyzeImage_entry(v, r1, cache)
        [] m.kind = "fallbackIntro" ->
             StartSend(r1, Msg("fallbackPlain", "ErrorText", <<>>, "plain", r.caught.raw, "none"))
        [] OTHER -> Finish(v, r1, 200)

\* the code that follows an awaited sendMessage which rejected with e
afterSendFail(v, r, e) ==
  LET m == r.sending
      r0 == [ExtFailed(r, "send") EXCEPT !.sending = NoMsg]
      r1 == IF m.kind = "analysis" /\ includes(e, M_PARSE) THEN Raise(r0, "ParseRejected") ELSE r0
  IN  CASE m.kind = "notice" -> handlePhoto_catch(v, Raise(r1, "Send"), e)
        [] m.kind = "analysis" ->
             IF Cached(v) THEN handlePhoto_catch(v, Raise(r1, "Send"), e)
             ELSE AnalyzeFail(v, Raise(r1, "Send"), e)
        [] m.kind = "reject" -> handleDocument_catch(v, Raise(r1, "Send"), e)
        [] m.kind \in {"fallbackIntro", "fallbackPlain"} ->
             StartSend(r1, Msg("error", "FallbackSummary", <<>>, "plain", FALSE, "none"))
        [] m.kind = "error" ->
             IF v = "p000" /\ r.ctx = "handlePhoto"
             THEN Finish(v, r1, 200)
             ELSE Finish(v, Raise(r1, "Escaped"), 500)
        [] OTHER -> Finish(v, Raise(r1, "Escaped"), 500)

(***************************************************************************)
(* What one finished update leaves for the comparison with the next one    *)
(***************************************************************************)
\* every external call of the update succeeded and the timer did not fire
ExternalsOk(r) ==
  /\ r.extFail = {}
  /\ r.nVision > 0 => r.gotText
  /\ r.timer # "fired"

\* the downloaded buffer passed the checks of the variant
Validated(v, r) ==
  /\ r.img # NoImage
  /\ ~TooBig(v, r.img)
  /\ Cached(v) => checkImageType(r.img) # "unknown"

\* the analysis delivered to the conversation (<<>> when there is none)
DeliveredAnalysis(r) ==
  LET as == {i \in 1..Len(r.out) : r.out[i].kind = "analysis"}
  IN  IF as = {} THEN <<>> ELSE r.out[CHOOSE i \in as : \A j \in as : j <= i].body

NoPrev == [key |-> 0, text |-> <<>>, vision |-> 0]

Summary(v, r) ==
  IF r.pc = "done" /\ r.ctx = "handlePhoto" /\ Validated(v, r) /\ ExternalsOk(r)
  THEN [key |-> ImageHash(r.img), text |-> DeliveredAnalysis(r), vision |-> r.nVision]
  ELSE NoPrev

(***************************************************************************)
(* Actions                                                                 *)
(***************************************************************************)
Outcomes(errs) == {[ok |-> TRUE, e |-> NoErr]} \cup {[ok |-> FALSE, e |-> x] : x \in errs}

Init ==
  /\ variant \in Variants
  /\ req = [s \in Slots |-> Idle]
  /\ analysisCache = <<>>
  /\ nUpdates = 0
  /\ prev = NoPrev
  /\ san = NoSan

\* the platform posts update u and the hosting runtime calls handler
Receive(s, u) ==
  /\ req[s].pc \in {"idle", "done"}
  /\ nUpdates < MaxUpdates
  /\ nUpdates' = nUpdates + 1
  /\ prev' = Summary(variant, req[s])
  /\ req' = [req EXCEPT ![s] = handler_entry(variant, u)]
  /\ UNCHANGED <<variant, analysisCache, san>>

\* await bot.getFileLink(fileId) settles
GetFileLinkDone(s, o) ==
  /\ req[s].pc = "getFileLink"
  /\ req' = [req EXCEPT ![s] =
               IF o.ok
               THEN [req[s] EXCEPT !.pc = "download", !.nDownload = @ + 1]
               ELSE Caught(variant, Raise(Rejected(req[s], "getFileLink", o.e), "FileLink"),
                           getFileLink_catch(variant, req[s].ctx, o.e))]
  /\ UNCHANGED <<variant, analysisCache, nUpdates, prev, san>>

\* await axios.get(fileLink) settles
DownloadDone(s, o, imageBuffer) ==
  /\ req[s].pc = "download"
  /\ req' = [req EXCEPT ![s] =
               IF o.ok
               THEN afterDownload(variant, req[s], imageBuffer, analysisCache)
               ELSE Caught(variant, Raise(Rejected(req[s], "download", o.e), "Download"),
                           download_catch(variant, req[s].ctx, o.e))]
  /\ UNCHANGED <<variant, analysisCache, nUpdates, prev, san>>

\* an analyzeImage that stores an empty analysis when Vision gave no text
VisionDone_Mutant(s, o) ==
  /\ req[s].pc = "vision"
  /\ LET a == afterVision(variant, req[s], o, analysisCache)
     IN  /\ req' = [req EXCEPT ![s] = a.r]
         /\ analysisCache' = IF Cached(variant) /\ o.kind # "text"
                             THEN CacheSet(a.cache, ImageHash(req[s].img), <<>>)
                             ELSE a.cache
  /\ UNCHANGED <<variant, nUpdates, prev, san>>

\* await model.generateContent(...) settles
VisionDone(s, o) ==
  /\ req[s].pc = "vision"
  /\ LET a == afterVision(variant, req[s], o, analysisCache)
     IN  /\ req' = [req EXCEPT ![s] = a.r]
         /\ analysisCache' = a.cache
  /\ UNCHANGED <<variant, nUpdates, prev, san>>

\* await bot.sendMessage(...) settles
SendDone(s, o) ==
  /\ req[s].pc = "send"
  /\ req' = [req EXCEPT ![s] =
               IF o.ok
               THEN afterSendOk(variant, req[s], analysisCache)
               ELSE afterSendFail(variant, req[s], o.e)]
  /\ UNCHANGED <<variant, analysisCache, nUpdates, prev, san>>

\* a timer that no clearTimeout stops
TimerFires_Mutant(s) ==
  /\ req[s].timer \in {"armed", "cleared"}
  /\ req[s].pc # "idle"
  /\ req' = [req EXCEPT ![s] = [@ EXCEPT !.timer = "fired", !.response = 504]]
  /\ UNCHANGED <<variant, analysisCache, nUpdates, prev, san>>

\* the setTimeout callback of handler runs: res.status(504).send(...)
TimerFires(s) ==
  /\ req[s].timer = "armed"
  /\ req[s].pc \notin {"idle", "done"}
  /\ req' = [req EXCEPT ![s] = [@ EXCEPT !.timer = "fired", !.response = 504]]
  /\ UNCHANGED <<variant, analysisCache, nUpdates, prev, san>>

\* updates are handled one after the other, by slot 1
Next ==
  \/ \E u \in Updates : Receive(1, u)
  \/ \E o \in Outcomes(LinkErrs) : GetFileLinkDone(1, o)
  \/ \E o \in Outcomes(DownloadErrs) : \E i \in Images : DownloadDone(1, o, i)
  \/ \E o \in VisionOutcomes : VisionDone(1, o)
  \/ \E o \in Outcomes(SendErrs) : SendDone(1, o)
  \/ TimerFires(1)

Spec == Init /\ [][Next]_vars

\* every awaited external call eventually settles (resolves or rejects); the
\* timer callback and the arrival of updates are under no obligation
Settles ==
  /\ WF_vars(\E o \in Outcomes(LinkErrs) : GetFileLinkDone(1, o))
  /\ WF_vars(\E o \in Outcomes(DownloadErrs) : \E i \in Images : DownloadDone(1, o, i))
  /\ WF_vars(\E o \in VisionOutcomes : VisionDone(1, o))
  /\ WF_vars(\E o \in Outcomes(SendErrs) : SendDone(1, o))

FairSpec == Spec /\ Settles

(***************************************************************************)
(* Concurrent invocations of a cached file: the hosting runtime calls      *)
(* handler for a new update while earlier invocations are suspended at an  *)
(* await.  The invocations share analysisCache.  The environment is the    *)
(* one of photo updates with valid images: two images of different         *)
(* content, file links that resolve, downloads that succeed.               *)
(***************************************************************************)
ConcVariants == {v \in Variants : Cached(v)}

ConcUpdates == {u \in Updates : u.photo = "sizes" /\ u.document = "absent" /\ ~u.hasText}

ConcImages == {i \in Images : i.id \in {1, 2}}

ConcVisionOutcomes ==
  {o \in VisionOutcomes : o.kind = "text" \/ (o.kind = "throw" /\ o.e = Err({}, TRUE))}

ConcSendErrs == {Err({}, TRUE)}

ConcInit ==
  /\ variant \in ConcVariants
  /\ req = [s \in Slots |-> Idle]
  /\ analysisCache = <<>>
  /\ nUpdates = 0
  /\ prev = NoPrev
  /\ san = NoSan

\* a new invocation takes the first slot that is free
ConcReceive(s, u) ==
  /\ \A t \in 1..(s - 1) : req[t].pc \notin {"idle", "done"}
  /\ Receive(s, u)

ConcNext ==
  \/ \E s \in Slots : \E u \in ConcUpdates : ConcReceive(s, u)
  \/ \E s \in Slots : GetFileLinkDone(s, [ok |-> TRUE, e |-> NoErr])
  \/ \E s \in Slots : \E i \in ConcImages : DownloadDone(s, [ok |-> TRUE, e |-> NoErr], i)
  \/ \E s \in Slots : \E o \in ConcVisionOutcomes : VisionDone(s, o)
  \/ \E s \in Slots : \E o \in Outcomes(ConcSendErrs) : SendDone(s, o)

ConcSpec == ConcInit /\ [][ConcNext]_vars

(***************************************************************************)
(* The cached files after a failed Vision call: updates are handled one    *)
(* after the other, and prev remembers the update before only when its     *)
(* Vision call gave no text.                                               *)
(***************************************************************************)
\* what an update whose Vision call rejected, or returned no usable
\* response, leaves for the comparison with the next one
FailureSummary(v, r) ==
  IF r.pc = "done" /\ r.ctx = "handlePhoto" /\ r.nVision = 1 /\ ~r.gotText
  THEN [key |-> ImageHash(r.img), text |-> <<>>, vision |-> 1]
  ELSE NoPrev

RetryUpdates == {u \in Updates : u.photo = "sizes"}

RetryInit ==
  /\ variant \in ConcVariants
  /\ req = [s \in Slots |-> Idle]
  /\ analysisCache = <<>>
  /\ nUpdates = 0
  /\ prev = NoPrev
  /\ san = NoSan

RetryReceive(s, u) ==
  /\ req[s].pc \in {"idle", "done"}
  /\ nUpdates < MaxUpdates
  /\ nUpdates' = nUpdates + 1
  /\ prev' = FailureSummary(variant, req[s])
  /\ req' = [req EXCEPT ![s] = handler_entry(variant, u)]
  /\ UNCHANGED <<variant, analysisCache, san>>

RetryNext ==
  \/ \E u \in RetryUpdates : RetryReceive(1, u)
  \/ GetFileLinkDone(1, [ok |-> TRUE, e |-> NoErr])
  \/ \E i \in Images : DownloadDone(1, [ok |-> TRUE, e |-> NoErr], i)
  \/ \E o \in VisionOutcomes : VisionDone(1, o)
  \/ \E o \in Outcomes(ConcSendErrs) : SendDone(1, o)

RetrySpec == RetryInit /\ [][RetryNext]_vars

(***************************************************************************)
(* The response sanitizers as pure functions: a text is handed to the      *)
(* sanitizer of a file, and the output is handed to it once more.          *)
(***************************************************************************)
MaxTextLen == 3

SanAlphabet == {"a", "*", "_", "&", "<", ">", ".", "\\"}

Repeat(c, n) == [i \in 1..n |-> c]

\* texts that exercise the header, list, link and code rules
MarkupTexts ==
  { <<"#", " ", "a", NL, "-", " ", "b">>,
    <<"*", "*", "a", "*", "*">>,
    <<"_", "_", "a", "_", "_">>,
    <<BACKTICK, "a", BACKTICK>>,
    <<"[", "a", "]", "(", "b", ")">>,
    <<"[", "[", "a", "]", "(", "b", ")", "]", "(", "c", ")">>,
    <<"a", "<", "b", " ", "&", " ", "c", ">", "d">>,
    <<"a", ".", ".", ".">> }

\* texts around the two length limits of the sanitizers
LongTexts ==
  { Repeat("a", 4000), Repeat("a", 4001), Repeat("a", 4096), Repeat("a", 4097),
    Repeat(".", 2001), Repeat("a", 4090) \o <<"&", "a", "a">> }

SanTexts ==
  UNION {[1..n -> SanAlphabet] : n \in 0..MaxTextLen} \cup MarkupTexts \cup LongTexts

\* the files that define a sanitizer
SanVariants == {"p001", "p003a", "p003b"}

SanInit ==
  /\ variant \in SanVariants
  /\ req = [s \in Slots |-> Idle]
  /\ analysisCache = <<>>
  /\ nUpdates = 0
  /\ prev = NoPrev
  /\ \E t \in SanTexts :
       san = [fn |-> SanitizerName(variant), text |-> t, out |-> <<>>, again |-> <<>>,
              pc |-> "input"]

\* the sanitizer of the file is called on the text
SanCall ==
  /\ san.pc = "input"
  /\ san' = [san EXCEPT !.out = Sanitize(variant, san.text), !.pc = "once"]
  /\ UNCHANGED <<variant, req, analysisCache, nUpdates, prev>>

\* the sanitizer of the file is called on its own output
SanRecall ==
  /\ san.pc = "once"
  /\ san' = [san EXCEPT !.again = Sanitize(variant, san.out), !.pc = "twice"]
  /\ UNCHANGED <<variant, req, analysisCache, nUpdates, prev>>

SanNext == SanCall \/ SanRecall

SanSpec == SanInit /\ [][SanNext]_vars

(***************************************************************************)
(* Properties                                                              *)
(***************************************************************************)
KnownSignatures == {JPEG_JFIF, JPEG_EXIF, PNG_SIG, GIF_SIG}

\* the buffer is longer than the ceiling of the variant's file
OverCeiling(v, img) == img.len > (IF v = "p002" THEN 40 * MiB ELSE 4 * MiB)

LastOut(r) == IF r.out = <<>> THEN NoMsg ELSE r.out[Len(r.out)]

CountKind(r, kinds) == Cardinality({i \in 1..Len(r.out) : r.out[i].kind \in kinds})

ApplySanitizer(name, t) ==
  CASE name = "sanitizeMarkdown"           -> sanitizeMarkdown(t)
    [] name = "markdownToTelegramHTML"     -> markdownToTelegramHTML(t)
    [] name = "sanitizeTelegramFormatting" -> sanitizeTelegramFormatting(t)
    [] OTHER                               -> <<>>

\* C1: in the files that call a sanitizer (part_000, part_001, both cached
\* files of part_003), a photo update for which file-link resolution, the
\* download, validation, the Vision call (a response with text) and every
\* send succeeded ends with the sanitized analysis as the last delivered
\* message, and the webhook handler answers 200.
C1_HappyPathDeliversAnalysis ==
  \A s \in Slots :
    LET r == req[s]
    IN  ( /\ variant \in {"p000", "p001", "p003a", "p003b"}
          /\ r.pc = "done"
          /\ r.ctx = "handlePhoto"
          /\ Validated(variant, r)
          /\ ExternalsOk(r)
          /\ r.gotText )
        => /\ LastOut(r).kind = "analysis"
           /\ LastOut(r).body = ApplySanitizer(SanitizerName(variant), r.raw)
           /\ r.response = 200

C3_OversizedGetsSizeSentence ==
  \A s \in Slots :
    LET r == req[s]
    IN  ( /\ variant \in {"p000", "bot2", "p001"}
          /\ r.ctx = "handlePhoto"
          /\ r.img # NoImage
          /\ r.img.len > 4 * MiB )
        => \A i \in 1..Len(r.out) : r.out[i].kind = "error" => r.out[i].sentence = "TooLarge"

\* C4: in the files that classify the format, a buffer within the ceiling
\* whose first four bytes are no known signature is classified unknown, the
\* unsupported-format error reaches the catch block of handlePhoto, and no
\* processing notice, no cache access and no Vision call happens.
C4_UnknownFormatRejected ==
  \A s \in Slots :
    LET r == req[s]
    IN  ( /\ Cached(variant)
          /\ r.img # NoImage
          /\ r.img.len <= 4 * MiB
          /\ r.img.head \notin KnownSignatures )
        => /\ checkImageType(r.img) = "unknown"
           /\ "Unsupported" \in r.thrown
           /\ M_FORMAT_RU \in r.caught.mk
           /\ CountKind(r, {"notice", "analysis"}) = 0
           /\ r.sending.kind \notin {"notice", "analysis"}
           /\ r.cacheOps = {}
           /\ r.nVision = 0
           /\ r.pc # "vision"

C4_Witness ==
  \E s \in Slots :
    /\ Cached(variant)
    /\ req[s].pc = "done"
    /\ req[s].img.head = <<255, 216, 255, 219>>
    /\ Len(req[s].out) = 1
    /\ req[s].out[1].sentence = "Unsupported"

\* C5: in a cached file, when a photo update with a validated image whose
\* external calls all succeeded directly follows such an update with the
\* same bytes, the two caused exactly one Vision call together and the
\* second delivered the same text as the first.
C5_SecondServedFromCache ==
  \A s \in Slots :
    LET r == req[s]
    IN  ( /\ Cached(variant)
          /\ r.pc = "done"
          /\ r.ctx = "handlePhoto"
          /\ Validated(variant, r)
          /\ ExternalsOk(r)
          /\ prev.key = ImageHash(r.img) )
        => /\ prev.vision + r.nVision = 1
           /\ DeliveredAnalysis(r) = prev.text

\* C6: the hash is computed and analysisCache is read or written only for
\* a buffer that passed the size check and the format check, and every key
\* of analysisCache is the hash of such a buffer.
C6_CacheOnlyForValidated ==
  /\ \A s \in Slots :
       req[s].cacheOps # {}
         => /\ req[s].img # NoImage
            /\ req[s].img.len <= 4 * MiB
            /\ req[s].img.head \in KnownSignatures
  /\ \A k \in DOMAIN analysisCache :
       \E i \in Images : /\ i.id = k
                         /\ i.len <= 4 * MiB
                         /\ i.head \in KnownSignatures

C6_Witness ==
  \E s \in Slots :
    /\ req[s].pc = "done"
    /\ req[s].img # NoImage
    /\ (req[s].img.len > 4 * MiB \/ req[s].img.head \notin KnownSignatures)
    /\ req[s].cacheOps = {}
    /\ DOMAIN analysisCache # {}

\* C7: every analysis text handed to sendMessage is the output of a
\* sanitizing function applied to the raw text of the model.
C7_AnalysisAlwaysSanitized ==
  \A s \in Slots :
    LET r == req[s]
    IN  (r.sending.kind = "analysis" /\ r.gotText)
        => /\ r.sending.san \in {"sanitizeMarkdown", "markdownToTelegramHTML",
                                 "sanitizeTelegramFormatting"}
           /\ r.sending.body = ApplySanitizer(r.sending.san, r.raw)

\* the update has none of the shapes photo / document / text
UnknownShape(v, u) ==
  \/ ~u.msg
  \/ /\ u.photo = "absent"
     /\ ~u.hasText
     /\ (u.document = "absent" \/ ~HasDocument(v))

\* C8: for an update whose shape is none of photo / document / text the
\* webhook handler answers 400 and has no side effect.
C8_UnknownShape400 ==
  \A s \in Slots :
    LET r == req[s]
    IN  (r.pc # "idle" /\ UnknownShape(variant, r.upd))
        => /\ r.response = 400
           /\ r.out = <<>>
           /\ r.sending = NoMsg
           /\ r.nLink = 0 /\ r.nDownload = 0 /\ r.nVision = 0
           /\ r.cacheOps = {}

\* C9 as stated: for every update that carries a message the webhook handler
\* invokes exactly one of its handlers.
C9_ExactlyOneHandler ==
  \A s \in Slots :
    (req[s].pc # "idle" /\ req[s].upd.msg) => Len(req[s].invoked) = 1

\* C9 amended: the webhook handler invokes at most one of its handlers for
\* any update, and exactly one when the message carries a photo, a document
\* (in a file that has handleDocument) or a non-empty text, also when
\* several of these fields are set at once.
C9_AtMostOneHandler ==
  \A s \in Slots :
    LET r == req[s]
        u == r.upd
    IN  r.pc # "idle"
        => /\ Len(r.invoked) <= 1
           /\ Len(r.invoked) = 1
                <=> /\ u.msg
                    /\ \/ u.photo # "absent"
                       \/ (HasDocument(variant) /\ u.document # "absent")
                       \/ (u.hasText /\ u.text # <<>>)

C9_Witness ==
  \E s \in Slots :
    /\ req[s].pc = "done"
    /\ req[s].upd.photo = "sizes"
    /\ req[s].upd.document = "image/png"
    /\ req[s].upd.hasText
    /\ req[s].invoked = <<"handlePhoto">>

\* C10: a text, command or unknown update delivers at most one message; a
\* photo or document update delivers at most two: at most one processing
\* notice, which comes first, and at most one final message, which is the
\* analysis or one error message and never both; when no send failed the
\* finished photo or document update delivered exactly one final message.
C10_MessageBound ==
  \A s \in Slots :
    LET r == req[s]
        finals == {"analysis", "error", "reject", "fallbackIntro", "fallbackPlain"}
    IN  IF r.ctx \in {"handlePhoto", "handleDocument"}
        THEN /\ Len(r.out) <= 2
             /\ CountKind(r, {"notice"}) <= 1
             /\ \A i \in 1..Len(r.out) : r.out[i].kind = "notice" => i = 1
             /\ CountKind(r, finals) <= 1
             /\ \A i \in 1..Len(r.out) : r.out[i].kind \in finals \cup {"notice"}
             /\ (r.pc = "done" /\ "send" \notin r.extFail) => CountKind(r, finals) = 1
        ELSE /\ Len(r.out) <= 1
             /\ \A i \in 1..Len(r.out) : r.out[i].kind = "reply"

C10_Witness ==
  \E s \in Slots :
    /\ req[s].pc = "done"
    /\ Len(req[s].out) = 2
    /\ req[s].out[1].kind = "notice"
    /\ req[s].out[2].kind = "error"
    /\ "send" \in req[s].extFail

\* the update is a document whose declared MIME type is not an image type
NonImageDocument(r) == r.ctx = "handleDocument" /\ r.upd.document = "application/pdf"

\* C11 as stated: a document update whose declared MIME type does not start
\* with image/ ends with exactly one delivered message (the request to send
\* an image file), no file link, no download, no Vision call, no error
\* raised, and the answer 200.
C11_NonImageDocument ==
  \A s \in Slots :
    LET r == req[s]
    IN  (NonImageDocument(r) /\ r.pc = "done")
        => /\ Len(r.out) = 1
           /\ r.out[1].sentence = "PleaseSendImage"
           /\ r.nLink = 0 /\ r.nDownload = 0 /\ r.nVision = 0
           /\ r.thrown = {}
           /\ r.response = 200

\* C11 amended: such an update never resolves a file link, downloads or
\* calls Vision, and the first message handleDocument hands to sendMessage is
\* the request to send an image file; when no send failed, exactly that one
\* message was delivered, no error was raised, and the answer is 200 unless
\* the 25 s timer fired first (then it is 504).
C11_NonImageDocumentShortCircuit ==
  \A s \in Slots :
    LET r == req[s]
    IN  NonImageDocument(r)
        => /\ r.nLink = 0 /\ r.nDownload = 0 /\ r.nVision = 0
           /\ r.pc \in {"send", "done"}
           /\ r.cacheOps = {}
           /\ ("send" \notin r.extFail /\ r.pc = "send") => r.sending.kind = "reject"
           /\ ("send" \notin r.extFail /\ r.pc = "done")
                => /\ Len(r.out) = 1
                   /\ r.out[1].sentence = "PleaseSendImage"
                   /\ r.thrown = {}
                   /\ r.response = (IF r.timer = "fired" THEN 504 ELSE 200)

C11_Witness ==
  \E s \in Slots :
    /\ NonImageDocument(req[s])
    /\ req[s].pc = "done"
    /\ Len(req[s].out) = 1
    /\ req[s].out[1].kind = "reject"
    /\ req[s].response = 200

\* the Vision call of the update failed with a safety-block signal
SafetyBlocked(r) ==
  /\ "vision" \in r.extFail
  /\ (includes(r.rejected, M_SAFETY) \/ includes(r.rejected, M_BLOCKED))

\* C12: when the Vision call fails with a safety-block signal, every error
\* message handed to sendMessage for that update is the fixed safety-concern
\* sentence and embeds no raw text of the provider, in handlePhoto and in
\* handleDocument of every file.
C12_SafetyBlockSentence ==
  \A s \in Slots :
    LET r == req[s]
        ok(m) == m.kind = "error" => (m.sentence = "Safety" /\ ~m.raw)
    IN  SafetyBlocked(r)
        => /\ ok(r.sending)
           /\ \A i \in 1..Len(r.out) : ok(r.out[i])
           /\ r.pc = "done" /\ "send" \notin r.extFail => CountKind(r, {"error"}) = 1

\* C13: no failure raised inside handlePhoto or handleDocument escapes to
\* the webhook handler, also when the send of the error message fails: the
\* finished update is never answered 500, and it is answered 200 unless the
\* timer fired first.
C13_FailuresStayInHandler ==
  \A s \in Slots :
    LET r == req[s]
    IN  (r.ctx \in {"handlePhoto", "handleDocument"} /\ r.pc = "done")
        => /\ "Escaped" \notin r.thrown
           /\ r.response # 500
           /\ r.timer # "fired" => r.response = 200

\* C14: on the photo path of part_000, when the Vision call returned a text
\* and nothing failed except that the Markdown send of the analysis was
\* rejected with a parse error, the finished update has delivered the
\* analysis content exactly once (formatted, or as the plain-text retry that
\* follows a parse rejection) and no error message.
C14_ParseFallbackDeliversAnalysis ==
  \A s \in Slots :
    LET r == req[s]
    IN  ( /\ variant = "p000"
          /\ r.ctx = "handlePhoto"
          /\ r.pc = "done"
          /\ r.gotText
          /\ r.extFail \subseteq {"send"}
          /\ "send" \in r.extFail => "ParseRejected" \in r.thrown )
        => /\ CountKind(r, {"analysis", "fallbackPlain"}) = 1
           /\ CountKind(r, {"error"}) = 0
           /\ "ParseRejected" \in r.thrown <=> CountKind(r, {"fallbackPlain"}) = 1

\* C15: provided every awaited external call eventually settles, every
\* invocation of the webhook handler eventually writes an HTTP response
\* (200, 400, 500 or 504), also when the reply to the user could not be sent.
C15_AckEventually ==
  \A s \in Slots :
    (req[s].pc # "idle" /\ req[s].response = 0) ~> (req[s].response \in {200, 400, 500, 504})

C15_Witness ==
  \E s \in Slots :
    /\ req[s].pc = "done"
    /\ "send" \in req[s].extFail
    /\ req[s].out = <<>>
    /\ req[s].response \in {200, 500}

\* C16: in the files whose handler arms the 25 s timer, the status written
\* to the response is 504 when the timer fired before the handler chain
\* completed, and otherwise 400 for an update of unknown shape, 500 when an
\* exception escaped the dispatched handler and 200 when it completed
\* without throwing; before completion nothing but the timer's 504 is written.
C16_StatusMapping ==
  \A s \in Slots :
    LET r == req[s]
    IN  (HasTimer(variant) /\ r.pc # "idle")
        => /\ r.timer = "fired" <=> r.response = 504
           /\ r.pc # "done" => r.response \in {0, 504}
           /\ "Escaped" \in r.thrown => (r.pc = "done" /\ "send" \in r.extFail)
           /\ (r.pc = "done" /\ r.timer # "fired")
                => r.response = (CASE UnknownShape(variant, r.upd) \/ r.invoked = <<>> -> 400
                                   [] r.invoked # <<>> /\ "Escaped" \in r.thrown -> 500
                                   [] OTHER -> 200)

C16_Witness ==
  \E s \in Slots :
    /\ HasTimer(variant)
    /\ req[s].pc = "done"
    /\ req[s].timer = "fired"
    /\ req[s].response = 504
    /\ req[s].late = <<200, 500>>

\* C17: within the handling of one update there is at most one file-link
\* resolution, at most one download and at most one Vision call, whatever
\* fails; a call is made only when the one before it succeeded.
C17_NoRetry ==
  \A s \in Slots :
    LET r == req[s]
    IN  /\ r.nLink <= 1
        /\ r.nDownload <= 1
        /\ r.nVision <= 1
        /\ r.nDownload <= r.nLink
        /\ r.nVision <= r.nDownload
        /\ r.extFail \cap {"getFileLink", "download", "vision"} # {}
             => r.pc \notin {"getFileLink", "download", "vision"}

C17_Witness ==
  \E s \in Slots :
    /\ req[s].pc = "done"
    /\ "vision" \in req[s].extFail
    /\ "send" \in req[s].extFail
    /\ req[s].nLink = 1 /\ req[s].nDownload = 1 /\ req[s].nVision = 1

\* C18: in handlePhoto of the second handler of bot.mjs and of part_000, when
\* the download (axios.get) rejected, every error message of the update is
\* the download-failure sentence, whatever markers the transport error's
\* text contains.
C18_DownloadFailureClassified ==
  \A s \in Slots :
    LET r == req[s]
        ok(m) == m.kind = "error" => m.sentence = "Download"
    IN  ( /\ variant \in {"bot2", "p000"}
          /\ r.ctx = "handlePhoto"
          /\ "download" \in r.extFail )
        => /\ ok(r.sending)
           /\ \A i \in 1..Len(r.out) : ok(r.out[i])
           /\ (r.pc = "done" /\ "send" \notin r.extFail) => CountKind(r, {"error"}) = 1

\* the update takes the text path of part_001 / part_003
TextUpdate(v, r) ==
  /\ Cached(v)
  /\ r.pc # "idle"
  /\ r.upd.msg
  /\ r.upd.photo = "absent"
  /\ r.upd.hasText
  /\ r.upd.text # <<>>

\* the text path made no call other than sendMessage and sent at most one
\* message, exactly one once it is done and the send did not fail
TextPathQuiet(r) ==
  /\ r.nLink = 0 /\ r.nDownload = 0 /\ r.nVision = 0
  /\ r.cacheOps = {}
  /\ r.pc \in {"send", "done"}
  /\ Len(r.out) + (IF r.pc = "send" THEN 1 ELSE 0) <= 1
  /\ (r.pc = "done" /\ "send" \notin r.extFail) => Len(r.out) = 1

\* every message the update sent or is sending carries the sentence x
OnlySentence(r, x) ==
  /\ r.pc = "send" => (r.sending.kind = "reply" /\ r.sending.sentence = x)
  /\ \A i \in 1..Len(r.out) : r.out[i].kind = "reply" /\ r.out[i].sentence = x

\* the two texts are equal up to the case of their letters
SameIgnoringCase(t, cmd) ==
  /\ Len(t) = Len(cmd)
  /\ \A i \in 1..Len(t) :
       \/ t[i] = cmd[i]
       \/ \E k \in 1..Len(UpperCase) : UpperCase[k] = t[i] /\ LowerCase[k] = cmd[i]

\* C19 as stated: a text update whose text is exactly /start, /help or
\* /about gets the corresponding canned reply and every other text gets the
\* prompt to send an image; one message, no download, Vision call or cache
\* access.
C19_CommandDispatchExact ==
  \A s \in Slots :
    LET r == req[s]
        t == r.upd.text
    IN  TextUpdate(variant, r)
        => /\ TextPathQuiet(r)
           /\ OnlySentence(r, CASE t = <<"/", "s", "t", "a", "r", "t">> -> "Start"
                                [] t = <<"/", "h", "e", "l", "p">>      -> "Help"
                                [] t = <<"/", "a", "b", "o", "u", "t">> -> "About"
                                [] OTHER                                -> "TextPrompt")

\* C19 amended: the command is recognized whatever the case of its letters;
\* a text that is none of the three commands up to case gets the prompt.
C19_CommandDispatchAnyCase ==
  \A s \in Slots :
    LET r == req[s]
        t == r.upd.text
    IN  TextUpdate(variant, r)
        => /\ TextPathQuiet(r)
           /\ OnlySentence(r,
                CASE SameIgnoringCase(t, <<"/", "s", "t", "a", "r", "t">>) -> "Start"
                  [] SameIgnoringCase(t, <<"/", "h", "e", "l", "p">>)      -> "Help"
                  [] SameIgnoringCase(t, <<"/", "a", "b", "o", "u", "t">>) -> "About"
                  [] OTHER                                                 -> "TextPrompt")

C19_Witness ==
  \E s \in Slots :
    /\ TextUpdate(variant, req[s])
    /\ req[s].pc = "done"
    /\ req[s].upd.text = <<"/", "H", "E", "L", "P">>
    /\ Len(req[s].out) = 1
    /\ req[s].out[1].sentence = "Help"

\* the texts a Vision response can be turned into by the sanitizer of v
SanitizedResponses(v) == {ApplySanitizer(SanitizerName(v), t) : t \in RawTexts}

\* two different invocations hold the same validated bytes
SameKey(s, t) ==
  /\ s # t
  /\ Validated(variant, req[s])
  /\ Validated(variant, req[t])
  /\ ImageHash(req[s].img) = ImageHash(req[t].img)

\* in every state: two invocations on the same bytes made at most two Vision
\* calls, and every value of analysisCache is the sanitized text of a Vision
\* response, stored under the hash of a valid image
C20_State ==
  /\ \A s, t \in Slots : SameKey(s, t) => req[s].nVision + req[t].nVision <= 2
  /\ \A k \in DOMAIN analysisCache :
       /\ analysisCache[k] \in SanitizedResponses(variant)
       /\ \E i \in ConcImages : ImageHash(i) = k

\* in every step: an invocation that writes the cache leaves under its key
\* the sanitized text of its own Vision response and changes no other key;
\* an invocation that reads the cache gets the value of its own key; a step
\* that does neither leaves the cache alone
C20_Step ==
  \A s \in Slots :
    LET wrote == "set" \in req'[s].cacheOps /\ "set" \notin req[s].cacheOps
        read  == "get" \in req'[s].cacheOps /\ "get" \notin req[s].cacheOps
        k     == ImageHash(req'[s].img)
    IN  /\ wrote => /\ DOMAIN analysisCache' = (DOMAIN analysisCache) \cup {k}
                    /\ analysisCache'[k] = ApplySanitizer(SanitizerName(variant), req'[s].raw)
                    /\ \A x \in (DOMAIN analysisCache) \ {k} : analysisCache'[x] = analysisCache[x]
        /\ read => /\ k \in DOMAIN analysisCache
                   /\ req'[s].sending.body = analysisCache[k]
                   /\ req'[s].nVision = 0
        /\ (\A t \in Slots : ~("set" \in req'[t].cacheOps /\ "set" \notin req[t].cacheOps))
             => analysisCache' = analysisCache

\* C20: two updates with byte-identical validated images handled
\* concurrently by a cached file cause at most two Vision calls; every write
\* to analysisCache replaces the value of its key by the sanitized text of
\* the writer's Vision response (the last writer wins) and touches no other
\* key, and a cache hit returns the value of the reader's own key.
C20_CacheRace == []C20_State /\ [][C20_Step]_vars

C20_Witness ==
  \E s, t \in Slots :
    /\ SameKey(s, t)
    /\ req[s].nVision = 1 /\ req[t].nVision = 1
    /\ "set" \in req[s].cacheOps /\ "set" \in req[t].cacheOps
    /\ req[s].raw # req[t].raw
    /\ req[s].pc = "done" /\ req[t].pc = "done"
    /\ analysisCache[ImageHash(req[t].img)] = ApplySanitizer(SanitizerName(variant), req[t].raw)
    /\ analysisCache[ImageHash(req[t].img)] # ApplySanitizer(SanitizerName(variant), req[s].raw)

\* the text a sanitizer has built before it looks at the length
Unbounded(fn, t) ==
  CASE fn = "sanitizeMarkdown" -> EscapeAll(t, Len(escapeChars))
    [] fn = "markdownToTelegramHTML" -> markdownToTelegramHTML(t)
    [] fn = "sanitizeTelegramFormatting" ->
         ReplaceLinks(
           ReplaceLazy(
             ReplaceLazy(
               ReplaceLazy(
                 ReplaceLazy(
                   ReplaceChar(ReplaceChar(ReplaceChar(t, "&", <<"&", "a", "m", "p", ";">>),
                                           "<", <<"&", "l", "t", ";">>),
                               ">", <<"&", "g", "t", ";">>),
                   <<"*", "*">>, <<"*", "*">>, <<"<", "b", ">">>, <<"<", "/", "b", ">">>),
                 <<"_", "_">>, <<"_", "_">>, <<"<", "u", ">">>, <<"<", "/", "u", ">">>),
               <<"*">>, <<"*">>, <<"<", "i", ">">>, <<"<", "/", "i", ">">>),
             <<BACKTICK>>, <<BACKTICK>>,
             <<"<", "c", "o", "d", "e", ">">>, <<"<", "/", "c", "o", "d", "e", ">">>))
    [] OTHER -> t

\* the length above which a sanitizer is to cut: the platform's 4096, and
\* the 4000 that sanitizeMarkdown keeps as its own, lower limit
LengthLimit(fn) == IF fn = "sanitizeMarkdown" THEN 4000 ELSE 4096

EndsWith(t, suffix) ==
  /\ Len(t) >= Len(suffix)
  /\ SubSeq(t, Len(t) - Len(suffix) + 1, Len(t)) = suffix

\* C21: the output of each sanitizer (the text that is stored in
\* analysisCache and delivered) is at most 4096 characters long; a
\* sanitized text within the limit is returned whole, and one longer than
\* the limit is cut to the limit and ends with the ellipsis marker.
C21_TruncatedToLimit ==
  san.pc \in {"once", "twice"}
    => LET u == Unbounded(san.fn, san.text)
       IN  /\ Len(san.out) <= 4096
           /\ Len(u) <= LengthLimit(san.fn) => san.out = u
           /\ Len(u) > LengthLimit(san.fn)
                => /\ Len(san.out) = LengthLimit(san.fn)
                   /\ EndsWith(san.out, ELLIPSIS)
                   /\ SubSeq(san.out, 1, LengthLimit(san.fn) - 3)
                        = SubSeq(u, 1, LengthLimit(san.fn) - 3)

\* C22: the two converting sanitizers are idempotent: applying
\* markdownToTelegramHTML or sanitizeTelegramFormatting to its own output
\* returns that output unchanged.
C22_ConvertIdempotent ==
  (/\ san.pc = "twice"
   /\ san.fn \in {"markdownToTelegramHTML", "sanitizeTelegramFormatting"})
    => san.again = san.out

\* C23: in every output of sanitizeMarkdown, truncated ones included, each
\* reserved character is immediately preceded by a backslash.
C23_ReservedEscaped ==
  (san.pc \in {"once", "twice"} /\ san.fn = "sanitizeMarkdown")
    => \A k \in 1..Len(san.out) :
         (\E j \in 1..Len(escapeChars) : escapeChars[j] = san.out[k])
           => (k > 1 /\ san.out[k - 1] = "\\")

\* the tags the converting sanitizers write, with a placeholder for the
\* address of a link
IsTagAt(t, k) ==
  \/ \E tag \in { <<"<", "b", ">">>, <<"<", "/", "b", ">">>,
                  <<"<", "i", ">">>, <<"<", "/", "i", ">">>,
                  <<"<", "u", ">">>, <<"<", "/", "u", ">">>,
                  <<"<", "c", "o", "d", "e", ">">>, <<"<", "/", "c", "o", "d", "e", ">">>,
                  <<"<", "/", "a", ">">> } :
       /\ k + Len(tag) - 1 <= Len(t)
       /\ SubSeq(t, k, k + Len(tag) - 1) = tag
  \/ /\ k + 8 <= Len(t)
     /\ SubSeq(t, k, k + 8) = <<"<", "a", " ", "h", "r", "e", "f", "=", "\"">>

\* position k of t lies inside a tag that starts at or before k
InTag(t, k) ==
  \E s \in 1..k :
    /\ IsTagAt(t, s)
    /\ \A j \in s..(k - 1) : t[j] # ">"

\* C24: the output of a converting sanitizer holds a raw '<' or '>' only as
\* part of a tag the sanitizer wrote, and a raw '&' only as the start of
\* one of the three entities: the '&', '<' and '>' of the input's literal
\* text come out as entities.
C24_LiteralEscaped ==
  (/\ san.pc \in {"once", "twice"}
   /\ san.fn \in {"markdownToTelegramHTML", "sanitizeTelegramFormatting"})
    => \A k \in 1..Len(san.out) :
         /\ san.out[k] = "<" => IsTagAt(san.out, k)
         /\ san.out[k] = ">" => InTag(san.out, k)
         /\ san.out[k] = "&"
              => \E ent \in { <<"&", "a", "m", "p", ";">>, <<"&", "l", "t", ";">>,
                              <<"&", "g", "t", ";">> } :
                   /\ k + Len(ent) - 1 <= Len(san.out)
                   /\ SubSeq(san.out, k, k + Len(ent) - 1) = ent

\* the type that the first four bytes of a buffer stand for
SignatureType(head) ==
  IF Len(head) < 4 THEN "unknown"
  ELSE LET b == SubSeq(head, 1, 4)
       IN  IF b \in {<<255, 216, 255, 224>>, <<255, 216, 255, 225>>} THEN "image/jpeg"
           ELSE IF b = <<137, 80, 78, 71>> THEN "image/png"
           ELSE IF b = <<71, 73, 70, 56>> THEN "image/gif"
           ELSE "unknown"

\* C25: checkImageType answers 'image/jpeg' exactly for the buffers that
\* start FF D8 FF E0 or FF D8 FF E1, 'image/png' exactly for 89 50 4E 47,
\* 'image/gif' exactly for 47 49 46 38 and 'unknown' for every other
\* buffer, shorter ones included; and a photo whose buffer is within the
\* ceiling and of one of the three types, all external calls succeeding,
\* is handed to analyzeImage and, unless analysisCache holds its text,
\* reaches the Vision call.
C25_SignatureDecides ==
  \A s \in Slots :
    LET r == req[s]
    IN  (Cached(variant) /\ r.img # NoImage)
          => /\ checkImageType(r.img) = SignatureType(r.img.head)
             /\ ( /\ r.pc = "done"
                  /\ r.ctx = "handlePhoto"
                  /\ ~TooBig(variant, r.img)
                  /\ SignatureType(r.img.head) # "unknown"
                  /\ ExternalsOk(r) )
                  => /\ "hash" \in r.cacheOps
                     /\ "get" \in r.cacheOps \/ r.nVision = 1

\* invocation s stores under key k in this step
Stores(s, k) ==
  /\ "set" \in req'[s].cacheOps
  /\ "set" \notin req[s].cacheOps
  /\ ImageHash(req'[s].img) = k

\* invocation s looks its key up in this step
LooksUp(s) == "has" \in req'[s].cacheOps /\ "has" \notin req[s].cacheOps

C26_Step ==
  /\ \A k \in DOMAIN analysisCache :
       /\ k \in DOMAIN analysisCache'
       /\ (\A s \in Slots : ~Stores(s, k)) => analysisCache'[k] = analysisCache[k]
  /\ \A k \in (DOMAIN analysisCache') \ (DOMAIN analysisCache) :
       \E s \in Slots : Stores(s, k)
  /\ \A s \in Slots :
       LooksUp(s)
         => LET k == ImageHash(req'[s].img)
            IN  IF k \in DOMAIN analysisCache
                THEN /\ "get" \in req'[s].cacheOps
                     /\ req'[s].sending.kind = "analysis"
                     /\ req'[s].sending.body = analysisCache[k]
                ELSE /\ "get" \notin req'[s].cacheOps
                     /\ req'[s].sending.kind # "analysis"

\* C26: analysisCache starts empty; a value stored under a key stays under
\* that key, unchanged, through every step that does not store under the
\* key again (nothing is evicted and nothing expires); a lookup of a key
\* that holds a value returns that value, and a lookup of a key that was
\* never stored reports it absent.
C26_CacheRoundTrip ==
  /\ [](nUpdates = 0 => analysisCache = <<>>)
  /\ [][C26_Step]_vars

\* a second invocation looked up the key under which the first one had
\* stored, and was served the stored text
C26_Witness ==
  \E s, t \in Slots :
    /\ s # t
    /\ "set" \in req[s].cacheOps
    /\ "get" \in req[t].cacheOps
    /\ ImageHash(req[s].img) = ImageHash(req[t].img)
    /\ req[t].pc = "done"
    /\ DeliveredAnalysis(req[t]) = analysisCache[ImageHash(req[s].img)]
    /\ DeliveredAnalysis(req[t]) # <<>>

\* in every state of a request: a fired timer means the response is its
\* 504, and a response of the handler chain means the timer did not fire
C27_State ==
  \A s \in Slots :
    LET r == req[s]
    IN  /\ r.timer # "none" => HasTimer(variant)
        /\ r.timer = "fired" => r.response = 504
        /\ r.response \in {200, 400, 500} => r.timer # "fired"
        /\ r.response = 504 => r.timer = "fired"
        /\ r.late # <<>> => r.timer = "fired"

\* in every step within one request: a response once written is never
\* replaced, and a timer that fired or was cleared never fires again
C27_Step ==
  \A s \in Slots :
    nUpdates' = nUpdates
      => /\ req[s].response # 0 => req'[s].response = req[s].response
         /\ req[s].timer \in {"fired", "cleared"} => req'[s].timer = req[s].timer

\* C27: in the files with the 25 s timer at most one response is written
\* for one request: after the timer callback wrote 504 the handler chain
\* writes no 200, 400 or 500 (its attempt fails on the response already
\* sent), and after the handler chain wrote its response the timer, cleared
\* just before, writes no 504.
C27_OneResponse == []C27_State /\ [][C27_Step]_vars

\* the timer fired while the chain was in flight, and the chain later came
\* to its res.status(200).send, which left the 504 in place
C27_Witness ==
  \E s \in Slots :
    /\ HasTimer(variant)
    /\ req[s].pc = "done"
    /\ req[s].timer = "fired"
    /\ req[s].response = 504
    /\ req[s].late = <<200, 500>>

\* in every step: analysisCache changes only in the step in which an
\* invocation's Vision call returned a text, and what is stored is the
\* sanitized form of that text under the hash of the invocation's buffer
C28_Step ==
  analysisCache' # analysisCache
    => \E s \in Slots :
         /\ req[s].pc = "vision"
         /\ req'[s].gotText
         /\ "set" \in req'[s].cacheOps
         /\ DOMAIN analysisCache' = (DOMAIN analysisCache) \cup {ImageHash(req[s].img)}
         /\ analysisCache'[ImageHash(req[s].img)]
              = ApplySanitizer(SanitizerName(variant), req'[s].raw)

\* in every state: an update whose buffer is the one for which the update
\* before got no text from Vision (prev, as FailureSummary keeps it) finds
\* nothing under its key and calls Vision itself
C28_State ==
  \A s \in Slots :
    LET r == req[s]
    IN  ( /\ Cached(variant)
          /\ prev.key # 0
          /\ r.img # NoImage
          /\ ImageHash(r.img) = prev.key
          /\ "has" \in r.cacheOps )
        => /\ "get" \notin r.cacheOps
           /\ r.nVision = 1

\* C28: analysisCache is written only when a Vision call has returned a
\* response and its text has been sanitized; a Vision call that throws or
\* returns no response leaves analysisCache unchanged, so the next update
\* with the same bytes calls Vision again.
C28_NoCachedFailure == []C28_State /\ [][C28_Step]_vars

\* the Vision call of one update failed, and the next update, with the same
\* bytes, called Vision again and delivered its analysis
C28_Witness ==
  \E s \in Slots :
    /\ Cached(variant)
    /\ prev.key # 0
    /\ req[s].pc = "done"
    /\ ImageHash(req[s].img) = prev.key
    /\ req[s].nVision = 1
    /\ req[s].gotText
    /\ prev.key \in DOMAIN analysisCache
    /\ DeliveredAnalysis(req[s]) = analysisCache[prev.key]

\* how far the photo path of an invocation has come
Stage(r) ==
  CASE r.pc = "idle"        -> 0
    [] r.pc = "getFileLink" -> 1
    [] r.pc = "download"    -> 2
    [] r.pc = "send" /\ r.sending.kind = "notice"   -> 3
    [] r.pc = "vision"      -> 4
    [] r.pc = "send" /\ r.sending.kind = "analysis" -> 5
    [] r.pc = "send"        -> 6
    [] OTHER                -> 7

\* the 'processing' notice has been delivered
Noticed(r) == \E i \in 1..Len(r.out) : r.out[i].kind = "notice"

\* in every state of a photo update in a cached file, each step that was
\* taken had its predecessors
C29_State ==
  \A s \in Slots :
    LET r == req[s]
    IN  (Cached(variant) /\ r.ctx = "handlePhoto")
          => /\ r.nDownload > 0 => r.nLink = 1
             /\ r.img # NoImage => r.nDownload = 1
             /\ TooBig(variant, r.img) => "Unsupported" \notin r.thrown
             /\ (Noticed(r) \/ Stage(r) = 3)
                  => /\ r.img # NoImage
                     /\ ~TooBig(variant, r.img)
                     /\ checkImageType(r.img) # "unknown"
             /\ r.cacheOps # {} => Noticed(r)
             /\ r.nVision > 0 => ("has" \in r.cacheOps /\ "get" \notin r.cacheOps)
             /\ "set" \in r.cacheOps => (r.nVision = 1 /\ r.gotText)
             /\ (Stage(r) = 5 \/ DeliveredAnalysis(r) # <<>>)
                  => /\ Noticed(r)
                     /\ "get" \in r.cacheOps \/ "set" \in r.cacheOps
             /\ \A i, j \in 1..Len(r.out) :
                  (r.out[i].kind = "notice" /\ r.out[j].kind = "analysis") => i < j

\* in every step within one update the path moves forward, the Vision call
\* directly follows the notice, and the delivery of the analysis directly
\* follows the notice (served from the cache) or the Vision call
C29_Step ==
  \A s \in Slots :
    (Cached(variant) /\ nUpdates' = nUpdates /\ req'[s] # req[s]
       /\ req'[s].ctx = "handlePhoto")
      => /\ Stage(req'[s]) > Stage(req[s]) \/ (Stage(req[s]) = 6 /\ Stage(req'[s]) = 6)
         /\ Stage(req'[s]) = 2 => Stage(req[s]) = 1
         /\ Stage(req'[s]) = 3 => Stage(req[s]) = 2
         /\ Stage(req'[s]) = 4 => Stage(req[s]) = 3
         /\ Stage(req'[s]) = 5
              => \/ Stage(req[s]) = 3 /\ "get" \in req'[s].cacheOps
                 \/ Stage(req[s]) = 4 /\ "set" \in req'[s].cacheOps

\* C29: on the photo path of the cached files the steps come in this order:
\* file-link resolution, download, size check, format check, 'processing'
\* notice, cache lookup, on a miss the Vision call with sanitization and
\* cache store, delivery of the result; the notice is sent only for a buffer
\* that passed both checks, and it is sent before a result served from the
\* cache as well.
C29_PhotoPathOrder == []C29_State /\ [][C29_Step]_vars

\* an update was served from the cache after its notice had been delivered
C29_Witness ==
  \E s \in Slots :
    /\ Cached(variant)
    /\ req[s].pc = "done"
    /\ "get" \in req[s].cacheOps
    /\ req[s].nVision = 0
    /\ Len(req[s].out) = 2
    /\ req[s].out[1].kind = "notice"
    /\ req[s].out[2].kind = "analysis"

\* the handler answered the text of the message (a command reply or the
\* prompt to send an image)
TextReplied(r) ==
  /\ r.invoked # <<>>
  /\ r.invoked[1] \notin {"handlePhoto", "handleDocument"}

\* C30: a message with a photo field is handled by handlePhoto even if it
\* also has a document or a text; a message without photo but with a
\* document is handled by handleDocument, in the files that have it, even if
\* it also has a text; the text is answered only when the message has
\* neither photo nor document.
C30_DispatchPrecedence ==
  \A s \in Slots :
    LET r == req[s]
        u == r.upd
    IN  (r.pc # "idle" /\ u.msg)
          => /\ u.photo # "absent" => r.invoked = <<"handlePhoto">>
             /\ (u.photo = "absent" /\ u.document # "absent" /\ HasDocument(variant))
                  => r.invoked = <<"handleDocument">>
             /\ TextReplied(r) => (u.photo = "absent" /\ u.document = "absent")

\* C30 amended: as above, but the text is answered only when the message
\* has no photo and, in the files that have handleDocument, no document
\* either; a file without handleDocument answers the text of a message that
\* carries a document and no photo.
C30_DispatchPrecedencePerFile ==
  \A s \in Slots :
    LET r == req[s]
        u == r.upd
    IN  (r.pc # "idle" /\ u.msg)
          => /\ u.photo # "absent" => r.invoked = <<"handlePhoto">>
             /\ (u.photo = "absent" /\ u.document # "absent" /\ HasDocument(variant))
                  => r.invoked = <<"handleDocument">>
             /\ TextReplied(r)
                  => /\ u.photo = "absent"
                     /\ HasDocument(variant) => u.document = "absent"
             /\ (u.photo = "absent" /\ u.document # "absent" /\ ~HasDocument(variant)
                   /\ u.hasText /\ u.text # <<>>)
                  => TextReplied(r)

\* a message with photo, document and text went to handlePhoto alone
C30_Witness ==
  \E s \in Slots :
    /\ req[s].pc = "done"
    /\ req[s].upd.photo = "sizes"
    /\ req[s].upd.document # "absent"
    /\ req[s].upd.hasText
    /\ req[s].invoked = <<"handlePhoto">>
    /\ HasDocument(variant)

====
